---- MODULE Spec2Model ----
(***************************************************************************)
(* CartPosConstraint of trajopt_ifopt (cartesian_position_constraint.cpp)  *)
(* together with CartPosKinematicInfo and the JointPosition variable it    *)
(* reads, as a state machine.                                              *)
(*                                                                         *)
(* Real numbers are fixed-point integers in units of 1/Scale.  Rotations   *)
(* are exact 3x3 integer matrices (quarter turns about the coordinate      *)
(* axes and their products), translations are integer vectors, so poses    *)
(* compose and invert without rounding.                                    *)
(***************************************************************************)
EXTENDS Integers, Sequences, FiniteSets, TLC

(* ------------------------------------------------------------------ *)
(* Bounds of the model                                                 *)
(* ------------------------------------------------------------------ *)

\* the prismatic joint takes the values 0 .. MaxSlide
MaxSlide == 1

(* ------------------------------------------------------------------ *)
(* Vectors, rotation matrices, rigid transforms (Eigen::Isometry3d)    *)
(* ------------------------------------------------------------------ *)

\* fixed-point unit: a real x is the integer x * Scale (millionths)
Scale == 1000 * 1000

Abs(x) == IF x < 0 THEN -x ELSE x

Zero3 == <<0, 0, 0>>

VAdd(a, b) == <<a[1] + b[1], a[2] + b[2], a[3] + b[3]>>

VSub(a, b) == <<a[1] - b[1], a[2] - b[2], a[3] - b[3]>>

VScale(s, a) == <<s * a[1], s * a[2], s * a[3]>>

Dot(a, b) == a[1] * b[1] + a[2] * b[2] + a[3] * b[3]

Cross(a, b) ==
  <<a[2] * b[3] - a[3] * b[2], a[3] * b[1] - a[1] * b[3], a[1] * b[2] - a[2] * b[1]>>

MatVec(M, v) == <<Dot(M[1], v), Dot(M[2], v), Dot(M[3], v)>>

MatCol(M, j) == <<M[1][j], M[2][j], M[3][j]>>

Transpose(M) == <<MatCol(M, 1), MatCol(M, 2), MatCol(M, 3)>>

MatRow(A, B, i) ==
  <<Dot(A[i], MatCol(B, 1)), Dot(A[i], MatCol(B, 2)), Dot(A[i], MatCol(B, 3))>>

MatMul(A, B) == <<MatRow(A, B, 1), MatRow(A, B, 2), MatRow(A, B, 3)>>

Trace(M) == M[1][1] + M[2][2] + M[3][3]

I3 == <<(<<1, 0, 0>>), (<<0, 1, 0>>), (<<0, 0, 1>>)>>

\* quarter turn about x, and about z
RotX90 == <<(<<1, 0, 0>>), (<<0, 0, -1>>), (<<0, 1, 0>>)>>

RotZ90 == <<(<<0, -1, 0>>), (<<1, 0, 0>>), (<<0, 0, 1>>)>>

\* a pose is [R |-> rotation (linear part), t |-> translation]
Pose(R, t) == [R |-> R, t |-> t]

Identity == Pose(I3, Zero3)

\* Isometry3d operator*: (a * b)(x) = a(b(x))
Compose(a, b) == Pose(MatMul(a.R, b.R), VAdd(MatVec(a.R, b.t), a.t))

\* Isometry3d::inverse(): R^T, -R^T t
Inverse(a) == Pose(Transpose(a.R), VScale(-1, MatVec(Transpose(a.R), a.t)))

(* ------------------------------------------------------------------ *)
(* External collaborators: kinematics provider and adjacency map       *)
(* ------------------------------------------------------------------ *)

\* The manipulator: joint 1 slides along the base x axis, joint 2 turns the
\* tip link about z.  A joint vector is <<slide, turn>>, the turn counted
\* in quarter turns (turn * pi/2 radians).
numJoints == 2

Slides == 0..MaxSlide

Turns == {0, 1}

Configs == {<<s, k>> : s \in Slides, k \in Turns}

RotZ(k) == IF k = 0 THEN I3 ELSE RotZ90

\* manip_->calcFwdKin(pose, joint_vals, link_name)
calcFwdKin(joint_vals) == Pose(RotZ(joint_vals[2]), <<joint_vals[1], 0, 0>>)

\* manip_->calcJacobian(jac, joint_vals, link_name): the geometric Jacobian at
\* the tip link's origin in the base frame, one twist [lin, ang] per joint
calcJacobian(joint_vals) ==
  << [lin |-> <<1, 0, 0>>, ang |-> Zero3],
     [lin |-> Zero3, ang |-> <<0, 0, 1>>] >>

\* a null shared_ptr, and a pointer to the record r
NULL == [null |-> TRUE]

Ptr(r) == [null |-> FALSE, ref |-> r]

LinkNames == {"tool0", "flange", "no_such_link"}

\* adjacency_map_->getLinkMapping(link): the AdjacencyMapPair of a known link
\* (its kinematic link and the fixed transform to it), nullptr otherwise
getLinkMapping(link) ==
  CASE link = "tool0"  -> Ptr([link_name |-> "tip", transform |-> Identity])
    [] link = "flange" -> Ptr([link_name |-> "tip", transform |-> Pose(I3, <<1, 0, 0>>)])
    [] OTHER           -> NULL

\* world-to-base transforms and tool offsets a client may pass
WorldToBase == {Identity, Pose(RotX90, <<0, 1, 0>>)}

Tcps == {Identity, Pose(Transpose(RotX90), <<0, 0, 1>>)}

(* ------------------------------------------------------------------ *)
(* State                                                               *)
(* ------------------------------------------------------------------ *)

VARIABLES
  build,            \* "debug": assert() is live; "release": NDEBUG, assert() is empty
  status,           \* "start" | "info" | "ready" | "aborted" | "crashed"
  kinematic_info_,  \* the CartPosKinematicInfo, NULL before it is constructed
  joint_vals,       \* values of the JointPosition variable position_var_
  target_pose_,
  target_pose_inv_,
  bounds_,
  n_dof_,
  use_numeric_differentiation_,
  call,             \* the most recent call: [op, arg, ret]
  passed_target,    \* [pose, by]: the target pose last passed in, and by which operation
  passed_bounds     \* Ptr(the bound list last passed to SetBounds), NULL before the first

vars ==
  <<build, status, kinematic_info_, joint_vals, target_pose_, target_pose_inv_,
    bounds_, n_dof_, use_numeric_differentiation_, call, passed_target, passed_bounds>>

\* position_var_->GetName()
VarName == "Joint_Position_0"

\* the variable sets of the problem
VarSets == {"Joint_Position_0", "Joint_Position_1"}

\* ifopt::Bounds, and ifopt::BoundZero
Bound(lo, up) == [lower |-> lo, upper |-> up]

BoundZero == Bound(0, 0)

Repeat(x, n) == [i \in 1..n |-> x]

\* bound lists a client may pass to SetBounds
BoundLists == {Repeat(Bound(-1, 1), 6), Repeat(Bound(-1, 1), 5)}

\* a 6-vector from a translation (integer) and a rotational error (fixed point)
concat(t, r) == <<Scale * t[1], Scale * t[2], Scale * t[3], r[1], r[2], r[3]>>

\* what a read through a dangling or null pointer may yield as a 6-vector
Garbage6 == {concat(Zero3, Zero3), concat(<<7, 7, 7>>, Zero3)}

\* the contents a caller's Jacobian block may have before FillJacobianBlock is
\* called: 6 rows and one column per joint, empty or with entries, or a larger
\* block with entries
PriorBlocks ==
  {Repeat(Repeat(0, numJoints), 6), Repeat(Repeat(7, numJoints), 6),
   Repeat(Repeat(5, numJoints + 1), 7)}

None == <<>>

Call(op, arg, ret) == [op |-> op, arg |-> arg, ret |-> ret]

(* ------------------------------------------------------------------ *)
(* Construction                                                        *)
(* ------------------------------------------------------------------ *)

Init ==
  /\ build \in {"debug", "release"}
  /\ status = "start"
  /\ kinematic_info_ = NULL
  /\ joint_vals \in Configs
  /\ target_pose_ = Identity
  /\ target_pose_inv_ = Identity
  /\ bounds_ = <<>>
  /\ n_dof_ = 0
  /\ use_numeric_differentiation_ = TRUE
  /\ call = Call("none", None, None)
  /\ passed_target = [pose |-> Identity, by |-> "none"]
  /\ passed_bounds = NULL

\* assert(cond): aborts the process in a debug build, does nothing under NDEBUG
AssertFails(cond) == build = "debug" /\ ~cond

\* CartPosKinematicInfo::CartPosKinematicInfo
CartPosKinematicInfo(world_to_base, link, tcp) ==
  /\ status = "start"
  /\ LET kin_link == getLinkMapping(link) IN
       IF kin_link.null /\ AssertFails(FALSE)
         THEN /\ status' = "aborted"
              /\ UNCHANGED kinematic_info_
         ELSE /\ status' = "info"
              /\ kinematic_info_' =
                   Ptr([world_to_base_ |-> world_to_base, link_ |-> link,
                        kin_link_ |-> kin_link, tcp_ |-> tcp])
  /\ call' = Call("CartPosKinematicInfo", link, None)
  /\ UNCHANGED <<build, joint_vals, target_pose_, target_pose_inv_, bounds_, n_dof_,
                 use_numeric_differentiation_, passed_target, passed_bounds>>

\* the targets a client asks for: the poses the tool takes with the slide
\* at 0, one per turn of the tip
Reachable(info) ==
  LET link == IF info.kin_link_.null THEN Identity ELSE info.kin_link_.ref.transform
  IN  {Compose(Compose(Compose(info.world_to_base_, calcFwdKin(<<0, k>>)), link), info.tcp_) :
         k \in Turns}

Targets == IF kinematic_info_.null THEN {} ELSE Reachable(kinematic_info_.ref)

\* CartPosConstraint::CartPosConstraint
CartPosConstraint(target_pose) ==
  /\ status = "info"
  /\ target_pose_' = target_pose
  /\ target_pose_inv_' = Inverse(target_pose)
  /\ n_dof_' = numJoints
  /\ bounds_' = Repeat(BoundZero, 6)
  /\ status' = IF AssertFails(numJoints > 0) THEN "aborted" ELSE "ready"
  /\ call' = Call("CartPosConstraint", target_pose, None)
  /\ passed_target' = [pose |-> target_pose, by |-> "CartPosConstraint"]
  /\ UNCHANGED <<build, kinematic_info_, joint_vals, use_numeric_differentiation_,
                 passed_bounds>>

(* ------------------------------------------------------------------ *)
(* Rotational error and its difference quotient                        *)
(* ------------------------------------------------------------------ *)

\* twice the sine of the rotation angle times the rotation axis
Vee(R) == <<R[3][2] - R[2][3], R[1][3] - R[3][1], R[2][1] - R[1][2]>>

\* angle / (4 sin angle), by the trace 1 + 2 cos angle of the rotation:
\* pi/8 at a quarter turn, pi/(3 sqrt 3) at a third of a turn
AxisCoeff(R) ==
  CASE Trace(R) = 3 -> 0
    [] Trace(R) = 1 -> 392699
    [] Trace(R) = 0 -> 604600

\* (1 - (angle/2) cot(angle/2)) / (4 sin^2 angle)
CurveCoeff(R) ==
  CASE Trace(R) = 3 -> 0
    [] Trace(R) = 1 -> 53650
    [] Trace(R) = 0 -> 131800

\* calcRotationalError(R): the rotation vector angle * axis of R
calcRotationalError(R) == VScale(2 * AxisCoeff(R), Vee(R))

\* (calcRotationalError(addTwist(pose_err, twist, h).rotation()) -
\*  calcRotationalError(pose_err.rotation())) / h
\* for the step h = 1e-5, to first order in h: addTwist turns the pose by
\* h * ang on the left, and the rotation vector then moves by
\* h * (ang - (angle/2) axis x ang + (1 - (angle/2) cot(angle/2)) axis x (axis x ang))
RotErrQuotient(pose_err, ang) ==
  LET n == Vee(pose_err.R) IN
  VAdd(VSub(VScale(Scale, ang), VScale(AxisCoeff(pose_err.R), Cross(n, ang))),
       VScale(CurveCoeff(pose_err.R), Cross(n, Cross(n, ang))))

(* ------------------------------------------------------------------ *)
(* Evaluation                                                          *)
(* ------------------------------------------------------------------ *)

Info == kinematic_info_.ref

KinLink == Info.kin_link_.ref

\* new_pose of GetValues: world_to_base_ * FK * kin_link_->transform * tcp_
NewPose ==
  Compose(Compose(Compose(Info.world_to_base_, calcFwdKin(joint_vals)), KinLink.transform),
          Info.tcp_)

\* pose_err of GetValues
ValuesPoseErr == Compose(target_pose_inv_, NewPose)

\* (a variant of Values whose translation is that of new_pose, not of pose_err)
ValuesOfNewPose == concat(NewPose.t, calcRotationalError(ValuesPoseErr.R))

\* the vector GetValues returns
Values == concat(ValuesPoseErr.t, calcRotationalError(ValuesPoseErr.R))

\* (a variant of GetValues that keeps the computed pose in target_pose_)
GetValuesKeepsPose ==
  /\ status = "ready"
  /\ ~Info.kin_link_.null
  /\ call' = Call("GetValues", None, Values)
  /\ target_pose_' = NewPose
  /\ UNCHANGED <<build, status, kinematic_info_, joint_vals, target_pose_inv_, bounds_,
                 n_dof_, use_numeric_differentiation_, passed_target, passed_bounds>>

\* CartPosConstraint::GetValues
GetValues ==
  /\ status = "ready"
  /\ IF Info.kin_link_.null
       THEN \* kin_link_->link_name reads through a null pointer
            \/ /\ status' = "crashed"
               /\ call' = Call("GetValues", None, None)
            \/ /\ \E g \in Garbage6 : call' = Call("GetValues", None, g)
               /\ UNCHANGED status
       ELSE /\ call' = Call("GetValues", None, Values)
            /\ UNCHANGED status
  /\ UNCHANGED <<build, kinematic_info_, joint_vals, target_pose_, target_pose_inv_,
                 bounds_, n_dof_, use_numeric_differentiation_, passed_target,
                 passed_bounds>>

\* CartPosConstraint::GetBounds
GetBounds ==
  /\ status = "ready"
  /\ call' = Call("GetBounds", None, bounds_)
  /\ UNCHANGED <<build, status, kinematic_info_, joint_vals, target_pose_,
                 target_pose_inv_, bounds_, n_dof_, use_numeric_differentiation_,
                 passed_target, passed_bounds>>

\* (a variant of SetBounds that checks the list and drops it)
SetBoundsDropped(bounds) ==
  /\ status = "ready"
  /\ status' = IF AssertFails(Len(bounds) = 6) THEN "aborted" ELSE status
  /\ call' = Call("SetBounds", bounds, None)
  /\ passed_bounds' = Ptr(bounds)
  /\ UNCHANGED <<build, kinematic_info_, joint_vals, target_pose_, target_pose_inv_,
                 bounds_, n_dof_, use_numeric_differentiation_, passed_target>>

\* CartPosConstraint::SetBounds
SetBounds(bounds) ==
  /\ status = "ready"
  /\ IF AssertFails(Len(bounds) = 6)
       THEN /\ status' = "aborted"
            /\ UNCHANGED bounds_
       ELSE /\ bounds_' = bounds
            /\ UNCHANGED status
  /\ call' = Call("SetBounds", bounds, None)
  /\ passed_bounds' = Ptr(bounds)
  /\ UNCHANGED <<build, kinematic_info_, joint_vals, target_pose_, target_pose_inv_,
                 n_dof_, use_numeric_differentiation_, passed_target>>

\* (a variant of setTargetPose that keeps the inverse it had)
setTargetPoseStaleInverse(target_pose) ==
  /\ status = "ready"
  /\ target_pose_' = target_pose
  /\ call' = Call("setTargetPose", target_pose, None)
  /\ passed_target' = [pose |-> target_pose, by |-> "setTargetPose"]
  /\ UNCHANGED <<build, status, kinematic_info_, joint_vals, target_pose_inv_, bounds_,
                 n_dof_, use_numeric_differentiation_, passed_bounds>>

\* CartPosConstraint::setTargetPose
setTargetPose(target_pose) ==
  /\ status = "ready"
  /\ target_pose_' = target_pose
  /\ target_pose_inv_' = Inverse(target_pose)
  /\ call' = Call("setTargetPose", target_pose, None)
  /\ passed_target' = [pose |-> target_pose, by |-> "setTargetPose"]
  /\ UNCHANGED <<build, status, kinematic_info_, joint_vals, bounds_, n_dof_,
                 use_numeric_differentiation_, passed_bounds>>

\* CartPosConstraint::GetTargetPose
GetTargetPose ==
  /\ status = "ready"
  /\ call' = Call("GetTargetPose", None, target_pose_)
  /\ UNCHANGED <<build, status, kinematic_info_, joint_vals, target_pose_,
                 target_pose_inv_, bounds_, n_dof_, use_numeric_differentiation_,
                 passed_target, passed_bounds>>

\* the solver's SetValues on the JointPosition variable position_var_
SetValues(x) ==
  /\ status = "ready"
  /\ joint_vals' = x
  /\ call' = Call("SetValues", x, None)
  /\ UNCHANGED <<build, status, kinematic_info_, target_pose_, target_pose_inv_, bounds_,
                 n_dof_, use_numeric_differentiation_, passed_target, passed_bounds>>

\* a client's write to the public member use_numeric_differentiation_
SetNumericDifferentiation(b) ==
  /\ status = "ready"
  /\ use_numeric_differentiation_' = b
  /\ call' = Call("use_numeric_differentiation_", b, None)
  /\ UNCHANGED <<build, status, kinematic_info_, joint_vals, target_pose_,
                 target_pose_inv_, bounds_, n_dof_, passed_target, passed_bounds>>

(* ------------------------------------------------------------------ *)
(* The Jacobian block                                                  *)
(* ------------------------------------------------------------------ *)

\* tesseract_kinematics::jacobianChangeBase: both halves of every column are
\* turned by the linear part of change_base
jacobianChangeBase(jac, change_base) ==
  [c \in 1..Len(jac) |->
     [lin |-> MatVec(change_base.R, jac[c].lin), ang |-> MatVec(change_base.R, jac[c].ang)]]

\* tesseract_kinematics::jacobianChangeRefPoint: lin += ang x ref_point
jacobianChangeRefPoint(jac, ref_point) ==
  [c \in 1..Len(jac) |->
     [lin |-> VAdd(jac[c].lin, Cross(jac[c].ang, ref_point)), ang |-> jac[c].ang]]

\* tf0 of FillJacobianBlock
Tf0 == calcFwdKin(joint_vals)

\* jac0 after calcJacobian and the three changes of frame
GeometricJacobian ==
  jacobianChangeBase(
    jacobianChangeRefPoint(
      jacobianChangeBase(calcJacobian(joint_vals), Info.world_to_base_),
      MatVec(Compose(Info.world_to_base_, Tf0).R, Compose(KinLink.transform, Info.tcp_).t)),
    target_pose_inv_)

\* pose_err of FillJacobianBlock: the pose the twists are added to
JacobianPoseErr == Compose(target_pose_inv_, Tf0)

\* jac0 after the loop over its columns: entry (i, j), i in 1..6, in fixed point.
\* The head of a column is kept, its tail is replaced by the difference quotient.
Jac0(i, j) ==
  IF i <= 3
    THEN Scale * GeometricJacobian[j].lin[i]
    ELSE RotErrQuotient(JacobianPoseErr, GeometricJacobian[j].ang)[i - 3]

\* the block after jac_block.coeffRef(i, j) = jac0(i, j) for i < 6, j < n_dof_
\* (a variant of FilledBlock that adds jac0(i, j) to the entry already there)
FilledBlockAdds(jac_block) ==
  [i \in 1..Len(jac_block) |->
     [j \in 1..Len(jac_block[i]) |->
        IF i <= 6 /\ j <= n_dof_ THEN jac_block[i][j] + Jac0(i, j) ELSE jac_block[i][j]]]

FilledBlock(jac_block) ==
  [i \in 1..Len(jac_block) |->
     [j \in 1..Len(jac_block[i]) |->
        IF i <= 6 /\ j <= n_dof_ THEN Jac0(i, j) ELSE jac_block[i][j]]]

\* (a variant of UsesVarSet that takes every variable set for its own)
UsesAnyVarSet(var_set) == var_set \in VarSets

\* var_set == position_var_->GetName()
UsesVarSet(var_set) == var_set = VarName

\* what a block filled from reads through a null pointer may hold
GarbageBlocks == {Repeat(Repeat(7 * Scale, numJoints), 6)}

\* CartPosConstraint::FillJacobianBlock
FillJacobianBlock(var_set, jac_block) ==
  /\ status = "ready"
  /\ IF UsesVarSet(var_set)
       THEN IF Info.kin_link_.null
              THEN \* kin_link_->link_name reads through a null pointer
                   \/ /\ status' = "crashed"
                      /\ call' = Call("FillJacobianBlock", <<var_set, jac_block>>, None)
                   \/ /\ \E g \in GarbageBlocks :
                           call' = Call("FillJacobianBlock", <<var_set, jac_block>>, g)
                      /\ UNCHANGED status
              ELSE /\ call' = Call("FillJacobianBlock", <<var_set, jac_block>>,
                                   FilledBlock(jac_block))
                   /\ UNCHANGED status
       ELSE /\ call' = Call("FillJacobianBlock", <<var_set, jac_block>>, jac_block)
            /\ UNCHANGED status
  /\ UNCHANGED <<build, kinematic_info_, joint_vals, target_pose_, target_pose_inv_,
                 bounds_, n_dof_, use_numeric_differentiation_, passed_target,
                 passed_bounds>>

(* ------------------------------------------------------------------ *)
(* Specification                                                       *)
(* ------------------------------------------------------------------ *)

Next ==
  \/ \E w \in WorldToBase, l \in LinkNames, t \in Tcps : CartPosKinematicInfo(w, l, t)
  \/ \E p \in Targets : CartPosConstraint(p)
  \/ GetValues
  \/ GetBounds
  \/ \E b \in BoundLists : SetBounds(b)
  \/ \E p \in Targets : setTargetPose(p)
  \/ GetTargetPose
  \/ \E x \in Configs : SetValues(x)
  \/ \E b \in BOOLEAN : SetNumericDifferentiation(b)
  \/ \E v \in VarSets, j \in PriorBlocks : FillJacobianBlock(v, j)

Spec == Init /\ [][Next]_vars

(* ------------------------------------------------------------------ *)
(* Claims                                                              *)
(* ------------------------------------------------------------------ *)

\* FillJacobianBlock has returned from a call for the constraint's own
\* variable set, in a context whose link was resolved
Filled ==
  /\ status = "ready"
  /\ call.op = "FillJacobianBlock"
  /\ UsesVarSet(call.arg[1])
  /\ ~Info.kin_link_.null

\* tolerance of the comparison of two Jacobians: 1e-4
Tol == Scale \div 10000

\* the rate of calcFwdKin in joint j: the tip's velocity [lin, ang] in the
\* base frame per unit of the joint (slide: along x; turn: about z)
FkRate(j) ==
  IF j = 1 THEN [lin |-> <<1, 0, 0>>, ang |-> Zero3]
           ELSE [lin |-> Zero3, ang |-> <<0, 0, 1>>]

\* the rate of GetValues' pose_err in joint j, as a twist in the frame of the
\* residual: the tool point rides on the tip at Tf0.R * (link * tcp).t
PoseErrRate(j) ==
  LET arm == MatVec(Tf0.R, Compose(KinLink.transform, Info.tcp_).t)
      lin == VAdd(FkRate(j).lin, Cross(FkRate(j).ang, arm))
      R   == MatMul(target_pose_inv_.R, Info.world_to_base_.R)
  IN  [lin |-> MatVec(R, lin), ang |-> MatVec(R, FkRate(j).ang)]

\* entry (i, j) of the Jacobian of GetValues by central differences in the
\* joint values, to first order in the step
NumericJacobian(i, j) ==
  IF i <= 3
    THEN Scale * PoseErrRate(j).lin[i]
    ELSE RotErrQuotient(ValuesPoseErr, PoseErrRate(j).ang)[i - 3]

\* C1: a FillJacobianBlock call for a variable set other than the constraint's
\* own returns with the block exactly as it was passed in, and raises no error.
C1_ForeignVarSetIsNoOp ==
  (call.op = "FillJacobianBlock" /\ call.arg[1] # VarName)
    => (call.ret = call.arg[2] /\ status = "ready")

\* C1 witness: such a call with a block that held non-zero entries
C1_Witness ==
  /\ call.op = "FillJacobianBlock"
  /\ call.arg[1] # VarName
  /\ call.arg[2][1][1] # 0
  /\ call.ret = call.arg[2]

\* C2: after FillJacobianBlock every entry of the block is within 1e-4 of the
\* central-difference Jacobian of GetValues at the same configuration.
C2_HybridMatchesNumeric ==
  Filled =>
    \A i \in 1..6, j \in 1..n_dof_ : Abs(call.ret[i][j] - NumericJacobian(i, j)) <= Tol

\* C3: once the constraint is constructed, target_pose_ is the pose last
\* passed in (to the constructor or to setTargetPose), target_pose_inv_ is its
\* inverse, and GetTargetPose returns that pose.
C3_TargetPoseAndInverse ==
  status = "ready" =>
    /\ target_pose_ = passed_target.pose
    /\ Compose(target_pose_, target_pose_inv_) = Identity
    /\ Compose(target_pose_inv_, target_pose_) = Identity
    /\ (call.op = "GetTargetPose" => call.ret = passed_target.pose)

\* C3 witness: GetTargetPose after setTargetPose installed a turned and
\* shifted target
C3_Witness ==
  /\ status = "ready"
  /\ call.op = "GetTargetPose"
  /\ passed_target.by = "setTargetPose"
  /\ call.ret.R # I3
  /\ call.ret.t # Zero3

\* C4: when the transformed forward-kinematics pose of the current joint
\* values equals the target pose, GetValues returns the zero 6-vector.
C4_ZeroAtTarget ==
  (status = "ready" /\ call.op = "GetValues" /\ ~Info.kin_link_.null
     /\ NewPose = target_pose_)
    => call.ret = concat(Zero3, Zero3)

\* C4 witness: GetValues at the target, the target installed by
\* setTargetPose and not the identity
C4_Witness ==
  /\ status = "ready"
  /\ call.op = "GetValues"
  /\ ~Info.kin_link_.null
  /\ NewPose = target_pose_
  /\ passed_target.by = "setTargetPose"
  /\ target_pose_ # Identity

\* C5: GetBounds returns the 6-entry list last passed to SetBounds, and six
\* BoundZero entries before the first SetBounds.
C5_BoundsRoundTrip ==
  call.op = "GetBounds" =>
    IF passed_bounds.null
      THEN call.ret = Repeat(BoundZero, 6)
      ELSE Len(passed_bounds.ref) = 6 => call.ret = passed_bounds.ref

\* C5 witness: GetBounds returning a 6-entry list that was passed to
\* SetBounds, with a later setTargetPose in between or before
C5_Witness ==
  /\ call.op = "GetBounds"
  /\ ~passed_bounds.null
  /\ Len(passed_bounds.ref) = 6
  /\ call.ret # Repeat(BoundZero, 6)
  /\ passed_target.by = "setTargetPose"

\* C6: SetBounds with a list of a length other than 6 is rejected, so the
\* stored list and the list GetBounds returns always have 6 entries.
C6_BoundsAlwaysSix ==
  /\ (call.op = "SetBounds" /\ Len(call.arg) # 6) => status = "aborted"
  /\ status = "ready" => Len(bounds_) = 6
  /\ call.op = "GetBounds" => Len(call.ret) = 6

\* C7: with use_numeric_differentiation_ set, FillJacobianBlock writes the
\* Jacobian of GetValues by differences in the joint values; with it clear, the
\* analytic translational rows and difference-quotient rotational rows.
C7_NumericModeSelected ==
  Filled =>
    IF use_numeric_differentiation_
      THEN \A i \in 1..6, j \in 1..n_dof_ :
             Abs(call.ret[i][j] - NumericJacobian(i, j)) <= Tol
      ELSE call.ret = FilledBlock(call.arg[2])

\* C8: constructing a CartPosKinematicInfo for a link the adjacency map does
\* not resolve fails, so no CartPosKinematicInfo has a null kin_link_.
C8_KinLinkResolved ==
  /\ (call.op = "CartPosKinematicInfo" /\ getLinkMapping(call.arg).null)
       => status = "aborted"
  /\ ~kinematic_info_.null => ~kinematic_info_.ref.kin_link_.null

\* C9: GetValues, GetBounds and FillJacobianBlock leave the joint values, the
\* target pose, its inverse, the bounds and n_dof_ as they were; the joint
\* values change only in SetValues, the target pose and its inverse only in
\* setTargetPose (and the constructor), the bounds only in SetBounds (and the
\* constructor).
C9_EvaluationChangesNothing ==
  [][ /\ call'.op \in {"GetValues", "GetBounds", "FillJacobianBlock"}
          => UNCHANGED <<joint_vals, target_pose_, target_pose_inv_, bounds_, n_dof_>>
      /\ joint_vals' # joint_vals => call'.op = "SetValues"
      /\ (target_pose_' # target_pose_ \/ target_pose_inv_' # target_pose_inv_)
          => call'.op \in {"setTargetPose", "CartPosConstraint"}
      /\ bounds_' # bounds_ => call'.op \in {"SetBounds", "CartPosConstraint"}
    ]_vars

\* C9 witness: an evaluation after the target, the bounds and the joint values
\* were all set
C9_Witness ==
  /\ Filled
  /\ passed_target.by = "setTargetPose"
  /\ ~passed_bounds.null
  /\ bounds_ = passed_bounds.ref
  /\ joint_vals # <<0, 0>>

\* C10: the pose FillJacobianBlock adds the twists to is the relative pose
\* GetValues takes its residual from.
C10_SameRelativePose == Filled => JacobianPoseErr = ValuesPoseErr

\* the 6 x n_dof_ entries of a block that FillJacobianBlock is to assign
Assigned(block) == [i \in 1..6 |-> [j \in 1..n_dof_ |-> block[i][j]]]

\* C11: a FillJacobianBlock call for the constraint's own variable set assigns
\* each of the 6 x n_dof_ entries of the block and leaves every other entry and
\* the shape of the block as they were; the assigned entries are the same for
\* every prior content of the block, and filling the returned block again in
\* the same state returns it unchanged.
C11_AssignsWholeBlockOnly ==
  Filled =>
    LET before == call.arg[2]
        after  == call.ret
    IN  /\ Len(after) = Len(before)
        /\ \A i \in 1..Len(before) : Len(after[i]) = Len(before[i])
        /\ \A i \in 1..6, j \in 1..n_dof_ : after[i][j] = Jac0(i, j)
        /\ \A i \in 1..Len(before) : \A j \in 1..Len(before[i]) :
             (i > 6 \/ j > n_dof_) => after[i][j] = before[i][j]
        /\ \A other \in PriorBlocks : Assigned(FilledBlock(other)) = Assigned(after)
        /\ FilledBlock(after) = after

\* C11 witness: a call on a block larger than 6 x n_dof_ whose entries were
\* all non-zero, at joint values away from zero, that changed the block
C11_Witness ==
  /\ Filled
  /\ Len(call.arg[2]) > 6
  /\ Len(call.arg[2][1]) > n_dof_
  /\ call.arg[2][1][1] # 0
  /\ call.ret # call.arg[2]
  /\ call.ret[7] = call.arg[2][7]
  /\ joint_vals # <<0, 0>>

====
